---- MODULE Spec2Model ----
(***************************************************************************)
(* A model of main.py: the Telegram video relay bot.                       *)
(*                                                                         *)
(* handle_message is a coroutine run by one asyncio event loop.  Between   *)
(* two awaits its code runs without interruption, so every action below is *)
(* "resume after an await (with the awaited call's outcome) and run to the *)
(* next await or to the end".  The one exception is download_video, a      *)
(* synchronous call: it is entered by the action that resumes after the    *)
(* status message was sent and left by DownloadReturn; while a handler is  *)
(* inside it the event loop is occupied (variable running).                *)
(* Texts, file names and paths are sequences of one-character strings.     *)
(***************************************************************************)
EXTENDS Integers, Sequences, FiniteSets, TLC

(* ------------------------------------------------------------------ *)
(* Bounds of the model                                                 *)
(* ------------------------------------------------------------------ *)

\* number of updates (handle_message invocations) in one run
MaxUpdates == 2

\* number of chunks a probed text is built from (link validator check)
MaxChunks == 4

(* ------------------------------------------------------------------ *)
(* Characters and literals                                             *)
(* ------------------------------------------------------------------ *)

LowerLetters ==
    {"a","b","c","d","e","f","g","h","i","j","k","l","m","n","o","p","q",
     "r","s","t","u","v","w","x","y","z"}

UpperLetters ==
    {"A","B","C","D","E","F","G","H","I","J","K","L","M","N","O","P","Q",
     "R","S","T","U","V","W","X","Y","Z"}

Digits == {"0","1","2","3","4","5","6","7","8","9"}

\* str.strip() removes these (only the blank occurs in the model's texts)
Whitespace == {" "}

\* sanitize_filename: valid_chars = "-_.() " + ascii_letters + digits
valid_chars == {"-","_",".","(",")"," "} \cup LowerLetters \cup UpperLetters \cup Digits

\* sanitize_filename's default max_length
max_length == 50

\* the regex class [\w\-\/\?&=]
PathChars == LowerLetters \cup UpperLetters \cup Digits \cup {"_","-","/","?","&","="}

S_http == <<"h","t","t","p">>
S_sep == <<":","/","/">>
S_www == <<"w","w","w",".">>
D_instagram == <<"i","n","s","t","a","g","r","a","m",".","c","o","m">>
D_facebook == <<"f","a","c","e","b","o","o","k",".","c","o","m">>
D_youtube == <<"y","o","u","t","u","b","e",".","c","o","m">>
D_youtu_be == <<"y","o","u","t","u",".","b","e">>

\* the alternation (instagram\.com|facebook\.com|youtube\.com|youtu\.be)
Domains == {D_instagram, D_facebook, D_youtube, D_youtu_be}

(* ------------------------------------------------------------------ *)
(* Pure functions                                                      *)
(* ------------------------------------------------------------------ *)

\* the literal lit occurs in t at position i
HasAt(t, i, lit) ==
    /\ i >= 1
    /\ i + Len(lit) - 1 <= Len(t)
    /\ \A k \in 1..Len(lit) : t[i + k - 1] = lit[k]

\* positions after the optional group (https?:\/\/)? tried at position i
AfterScheme(t, i) ==
    {i}
    \cup (IF HasAt(t, i, S_http \o S_sep) THEN {i + 7} ELSE {})
    \cup (IF HasAt(t, i, S_http \o <<"s">> \o S_sep) THEN {i + 8} ELSE {})

\* positions after the optional group (www\.)? tried at the positions J
AfterWww(t, J) ==
    J \cup {j + Len(S_www) : j \in {k \in J : HasAt(t, k, S_www)}}

\* positions after one of the listed domains matched at a position of J
AfterDomain(t, J) ==
    UNION {{j + Len(d) : d \in {e \in Domains : HasAt(t, j, e)}} : j \in J}

\* positions after the literal \/ matched at a position of J
AfterSlash(t, J) ==
    {j + 1 : j \in {k \in J : HasAt(t, k, <<"/">>)}}

\* the pattern matches t starting at position i: [\w\-\/\?&=]+ needs one
\* character of the class after the slash
MatchesAt(t, i) ==
    \E p \in AfterSlash(t, AfterDomain(t, AfterWww(t, AfterScheme(t, i)))) :
        /\ p <= Len(t)
        /\ t[p] \in PathChars

\* bool(re.search(pattern, text)): a match starting anywhere in the text
is_valid_link(text) ==
    \E i \in 1..Len(text) : MatchesAt(text, i)

\* str.strip(): drop leading and trailing whitespace
RECURSIVE LStrip(_)
LStrip(s) ==
    IF s # <<>> /\ Head(s) \in Whitespace THEN LStrip(Tail(s)) ELSE s

RECURSIVE RStrip(_)
RStrip(s) ==
    IF s # <<>> /\ s[Len(s)] \in Whitespace
    THEN RStrip(SubSeq(s, 1, Len(s) - 1))
    ELSE s

strip(s) == RStrip(LStrip(s))

IsValidChar(c) == c \in valid_chars

\* sanitize_filename(filename, max_length=50)
sanitize_filename(filename) ==
    LET sanitized == SelectSeq(filename, IsValidChar)
        cut == IF Len(sanitized) > max_length
               THEN SubSeq(sanitized, 1, max_length)
               ELSE sanitized
    IN  strip(cut)

\* os.path.basename: what follows the last "/"
RECURSIVE basename(_)
basename(p) ==
    IF \E i \in 1..Len(p) : p[i] = "/"
    THEN basename(Tail(p))
    ELSE p

(* ------------------------------------------------------------------ *)
(* Inputs                                                              *)
(* ------------------------------------------------------------------ *)

\* user ids seen by the bot
Users == {"u1", "u2"}

\* senders the permission gate of the design denies; main.py holds no such
\* list, the set stands for the one the design describes
DenyList == {"u2"}

\* an update without a message or with an empty text
NoText == <<>>

\* message texts: not a link, and two links (the second sent with a blank
\* in front, which handle_message strips)
TextBad == <<"h","i">>
TextA == <<"y","o","u","t","u",".","b","e","/","a">>
TextB == <<" ","y","o","u","t","u",".","b","e","/","b">>

Texts == {NoText, TextBad, TextA, TextB}

Updates == [user : Users, text : Texts]

NoUpdate == [user |-> "none", text |-> NoText]

\* the file names the extraction tool prepares for the two videos
NameA == <<"a","?",".","m","p","4">>
NameB == <<"b",".","m","p","4">>

\* ydl.prepare_filename(ydl.extract_info(url)): the video's own name
prepare_filename(url) ==
    IF url = strip(TextA) THEN NameA ELSE NameB

DirDownloads == <<"d","o","w","n","l","o","a","d","s","/">>

\* download_video's final_path for a url
final_path(url) ==
    DirDownloads \o sanitize_filename(basename(prepare_filename(url)))

\* line 115: message_text, the stripped text, for each text of an update
stripped == [t \in Texts |-> strip(t)]

\* the message texts of the updates
MessageTexts == {stripped[t] : t \in Texts}

\* line 129: what is_valid_link answers for each message text
link_valid == [t \in MessageTexts |-> is_valid_link(t)]

\* line 81: download_video's final_path for each message text
final_paths == [t \in MessageTexts |-> final_path(t)]

\* the size limit of the design's compressor, in MB; main.py holds no such
\* number, it stands for the one the design describes
ThresholdMB == 50

\* the size in MB of the file the extraction tool writes at a path: the
\* first video is above the limit, the second below it
file_size_mb(path) ==
    IF path = final_paths[stripped[TextA]] THEN 60 ELSE 10

\* users.json does not exist
Absent == [exists |-> FALSE, map |-> {}]

\* no path (Python's None)
None == <<>>

Handlers == 1..MaxUpdates

\* outcomes of an awaited platform call
Outcomes == {"ok", "raise"}

\* outcomes of save_users: the map is written; open() raises and the file is
\* left as it was; or open(.., "w") has emptied the file and json.dump raises
SaveOutcomes == {"ok", "raise_open", "raise_write"}

\* users.json after open(.., "w") emptied it and the dump failed: no id in it
Truncated == [exists |-> TRUE, map |-> {}]

\* outcomes of the extraction tool inside download_video: the file is
\* written to final_path, the tool raises, or it returns having written
\* nothing at final_path
DownloadOutcomes == {"ok", "raise", "nofile"}

\* what the extraction tool's exception may say, when it raises one
ToolErrors ==
    {"ERROR: Unsupported URL", "ERROR: Video unavailable",
     "ERROR: Sign in to confirm your age"}

\* what send_video's exception says when it raises one for the file at a
\* path: the platform's messages differ with the size of the file
send_error(path) ==
    IF file_size_mb(path) > ThresholdMB THEN "Request Entity Too Large"
    ELSE "Timed out"

\* line 141: the text of the ValueError handle_message raises itself
ValueErrorText == "Video download failed or file doesn't exist."

\* line 161: the text of the reply after send_video raised
SendErrorReply == "Error occurred while sending the video."

\* no exception raised and no error reply sent yet
NoErrs == [dl_reply |-> "", send |-> "", send_reply |-> ""]

\* download check: no download asked for
NoDl ==
    [url |-> <<>>, tool |-> "ok", text |-> "", called |-> FALSE, ret |-> None,
     reply |-> ""]

\* update.message.entities when the message carries none
NoEntities == [present |-> FALSE, list |-> <<>>]

(* ------------------------------------------------------------------ *)
(* State                                                               *)
(* ------------------------------------------------------------------ *)

VARIABLES
    users,        \* the module-level dict users (its keys)
    usersFile,    \* users.json: whether it exists, and the keys of its map
    disk,         \* the paths of the files that exist under downloads/
    running,      \* the handler inside the synchronous download_video, or 0
    pc,           \* per handler: where the coroutine is suspended
    upd,          \* per handler: the update it was invoked with
    trace,        \* per handler: the calls it has made so far, in order
    video_path,   \* per handler: the local video_path
    pending,      \* per handler: an exception is propagating through finally
    probe,        \* link validator check: the text probed
    probeResult,  \* link validator check: what is_valid_link returned
    loaded,       \* the map load_users() returned when the module was loaded
    saveFailed,   \* the most recent save_users call raised
    errs,         \* per handler: the text of the exception send_video raised,
                  \* and the texts of the error replies sent
    entities,     \* spoiler check: the entities of the message
    has_spoiler,  \* spoiler check: the has_spoiler argument of send_video
    dl            \* download check: the url, what the tool does, what
                  \* download_video returns and the error reply sent

vars ==
    <<users, usersFile, disk, running, pc, upd, trace, video_path, pending,
      probe, probeResult, loaded, saveFailed, errs, entities, has_spoiler, dl>>

\* load_users(): the map read from users.json, {} when the file is missing
load_users(file) == IF file.exists THEN file.map ELSE {}

\* a save_users that dumps the map it re-reads from the file, not its argument
save_users_reread(map) == [exists |-> TRUE, map |-> load_users(usersFile)]

\* save_users(users) when it does not raise: json.dump of the whole map
save_users(map) == [exists |-> TRUE, map |-> map]

Finished == {"done", "raised"}

Awaiting ==
    {"await_welcome", "await_invalid", "await_processing", "await_dlerror",
     "await_send", "await_senderr", "await_delete"}

Count(seq, e) == Len(SelectSeq(seq, LAMBDA x : x = e))

Has(seq, e) == \E i \in 1..Len(seq) : seq[i] = e

message_text(h) == stripped[upd[h].text]

Init ==
    /\ usersFile \in {Absent, [exists |-> TRUE, map |-> {"u1"}]}
    /\ users = load_users(usersFile)
    /\ loaded = users
    /\ saveFailed = FALSE
    /\ disk = {}
    /\ running = 0
    /\ pc = [h \in Handlers |-> "idle"]
    /\ upd = [h \in Handlers |-> NoUpdate]
    /\ trace = [h \in Handlers |-> <<>>]
    /\ video_path = [h \in Handlers |-> None]
    /\ pending = [h \in Handlers |-> FALSE]
    /\ probe = <<>>
    /\ probeResult = "unset"
    /\ errs = [h \in Handlers |-> NoErrs]
    /\ entities = NoEntities
    /\ has_spoiler = "unset"
    /\ dl = NoDl

(* ------------------------------------------------------------------ *)
(* handle_message                                                      *)
(* ------------------------------------------------------------------ *)

\* a first-contact test that takes every sender for a new user
IsNewUser_always(u) == TRUE

\* the first-contact test: str(user_id) not in users
IsNewUser(u) == u \notin users

\* a link check that lets every text through
Validate_any(text) == [pc |-> "await_processing", call |-> "processing"]

\* lines 128-134: the link check and the reply that follows it; gives the
\* place of the next await and the call made
Validate(text) ==
    IF ~link_valid[text]
    THEN [pc |-> "await_invalid", call |-> "invalid"]
    ELSE [pc |-> "await_processing", call |-> "processing"]

\* the dispatcher hands updates to handle_message in their order
CanDispatch(h) ==
    /\ running = 0
    /\ pc[h] = "idle"
    /\ h > 1 => pc[h - 1] # "idle"

\* a handler that records the sender before it looks for a text
DispatchNoText_records(h) ==
    /\ CanDispatch(h)
    /\ \E u \in Updates :
        /\ u.text = NoText
        /\ upd' = [upd EXCEPT ![h] = u]
        /\ users' = users \cup {u.user}
        /\ usersFile' = save_users(users')
    /\ pc' = [pc EXCEPT ![h] = "done"]
    /\ UNCHANGED <<disk, running, trace, video_path, pending,
                   probe, probeResult, loaded, saveFailed,
                   errs, entities, has_spoiler, dl>>

\* lines 110-111: no message or no text: return
DispatchNoText(h) ==
    /\ CanDispatch(h)
    /\ \E u \in Updates :
        /\ u.text = NoText
        /\ upd' = [upd EXCEPT ![h] = u]
    /\ pc' = [pc EXCEPT ![h] = "done"]
    /\ UNCHANGED <<users, usersFile, disk, running, trace, video_path, pending,
                   probe, probeResult, loaded, saveFailed,
                   errs, entities, has_spoiler, dl>>

\* a handler that checks the link before the first-contact block, and so
\* leaves the sender of an invalid text unrecorded
DispatchNewUser_check_first(h) ==
    /\ CanDispatch(h)
    /\ \E u \in Updates, saved \in SaveOutcomes :
        /\ u.text # NoText
        /\ IsNewUser(u.user)
        /\ upd' = [upd EXCEPT ![h] = u]
        /\ IF ~link_valid[stripped[u.text]]
           THEN /\ pc' = [pc EXCEPT ![h] = "await_invalid"]
                /\ trace' = [trace EXCEPT ![h] = <<"invalid">>]
                /\ UNCHANGED <<users, usersFile, saveFailed>>
           ELSE /\ users' = users \cup {u.user}
                /\ saveFailed' = (saved # "ok")
                /\ IF saved = "ok"
                   THEN /\ usersFile' = save_users(users')
                        /\ pc' = [pc EXCEPT ![h] = "await_welcome"]
                        /\ trace' = [trace EXCEPT ![h] = <<"insert", "save", "welcome">>]
                   ELSE /\ usersFile' = IF saved = "raise_open" THEN usersFile ELSE Truncated
                        /\ pc' = [pc EXCEPT ![h] = "raised"]
                        /\ trace' = [trace EXCEPT ![h] = <<"insert", "save">>]
    /\ UNCHANGED <<disk, running, video_path, pending, probe, probeResult, loaded,
                   errs, entities, has_spoiler, dl>>

\* a handler that takes the user out of the map again when save_users raises
DispatchNewUser_rollback(h) ==
    /\ CanDispatch(h)
    /\ \E u \in Updates, saved \in SaveOutcomes :
        /\ u.text # NoText
        /\ IsNewUser(u.user)
        /\ upd' = [upd EXCEPT ![h] = u]
        /\ saveFailed' = (saved # "ok")
        /\ IF saved = "ok"
           THEN /\ users' = users \cup {u.user}
                /\ usersFile' = save_users(users')
                /\ pc' = [pc EXCEPT ![h] = "await_welcome"]
                /\ trace' = [trace EXCEPT ![h] = <<"insert", "save", "welcome">>]
           ELSE /\ users' = users
                /\ usersFile' = IF saved = "raise_open" THEN usersFile ELSE Truncated
                /\ pc' = [pc EXCEPT ![h] = "raised"]
                /\ trace' = [trace EXCEPT ![h] = <<"insert", "save">>]
    /\ UNCHANGED <<disk, running, video_path, pending, probe, probeResult, loaded,
                   errs, entities, has_spoiler, dl>>

\* lines 113-126: the first message of a user: insert, save, welcome
DispatchNewUser(h) ==
    /\ CanDispatch(h)
    /\ \E u \in Updates, saved \in SaveOutcomes :
        /\ u.text # NoText
        /\ IsNewUser(u.user)
        /\ upd' = [upd EXCEPT ![h] = u]
        /\ users' = users \cup {u.user}
        /\ saveFailed' = (saved # "ok")
        /\ IF saved = "ok"
           THEN /\ usersFile' = save_users(users')
                /\ pc' = [pc EXCEPT ![h] = "await_welcome"]
                /\ trace' = [trace EXCEPT ![h] = <<"insert", "save", "welcome">>]
           ELSE /\ usersFile' = IF saved = "raise_open" THEN usersFile ELSE Truncated
                /\ pc' = [pc EXCEPT ![h] = "raised"]
                /\ trace' = [trace EXCEPT ![h] = <<"insert", "save">>]
    /\ UNCHANGED <<disk, running, video_path, pending, probe, probeResult, loaded,
                   errs, entities, has_spoiler, dl>>

\* lines 113-134 for a user already in the map: straight to the link check
DispatchKnownUser(h) ==
    /\ CanDispatch(h)
    /\ \E u \in Updates :
        /\ u.text # NoText
        /\ ~IsNewUser(u.user)
        /\ upd' = [upd EXCEPT ![h] = u]
        /\ pc' = [pc EXCEPT ![h] = Validate(stripped[u.text]).pc]
        /\ trace' = [trace EXCEPT ![h] = <<Validate(stripped[u.text]).call>>]
    /\ UNCHANGED <<users, usersFile, disk, running, video_path, pending,
                   probe, probeResult, loaded, saveFailed,
                   errs, entities, has_spoiler, dl>>

\* lines 123-134: the welcome reply returned
WelcomeReturn(h) ==
    /\ running = 0
    /\ pc[h] = "await_welcome"
    /\ \E r \in Outcomes :
        IF r = "raise"
        THEN /\ pc' = [pc EXCEPT ![h] = "raised"]
             /\ trace' = trace
        ELSE /\ pc' = [pc EXCEPT ![h] = Validate(message_text(h)).pc]
             /\ trace' = [trace EXCEPT ![h] = Append(@, Validate(message_text(h)).call)]
    /\ UNCHANGED <<users, usersFile, disk, running, upd, video_path, pending,
                   probe, probeResult, loaded, saveFailed,
                   errs, entities, has_spoiler, dl>>

\* lines 131-132: the invalid-link warning returned
InvalidReturn(h) ==
    /\ running = 0
    /\ pc[h] = "await_invalid"
    /\ \E r \in Outcomes :
        pc' = [pc EXCEPT ![h] = IF r = "raise" THEN "raised" ELSE "done"]
    /\ UNCHANGED <<users, usersFile, disk, running, upd, trace, video_path,
                   pending, probe, probeResult, loaded, saveFailed,
                   errs, entities, has_spoiler, dl>>

\* lines 134-139: the status message returned; download_video is entered
ProcessingReturn(h) ==
    /\ running = 0
    /\ pc[h] = "await_processing"
    /\ \E r \in Outcomes :
        IF r = "raise"
        THEN /\ pc' = [pc EXCEPT ![h] = "raised"]
             /\ UNCHANGED <<running, trace>>
        ELSE /\ pc' = [pc EXCEPT ![h] = "downloading"]
             /\ running' = h
             /\ trace' = [trace EXCEPT ![h] = Append(@, "download")]
    /\ UNCHANGED <<users, usersFile, disk, upd, video_path, pending,
                   probe, probeResult, loaded, saveFailed,
                   errs, entities, has_spoiler, dl>>

\* download_video(url), lines 64-97: its return value given the tool's outcome
\* and the files on disk when it returns
download_video(url, outcome, files) ==
    IF outcome = "raise"
    THEN None
    ELSE IF final_paths[url] \in files THEN final_paths[url] ELSE None

\* a download_video that lets the tool's exception reach the handler
download_error_raw(toolText) == toolText

\* lines 95-97 and 140-144: str(e) in the download error reply, given the text
\* of the exception the tool raised ("" if none): download_video logged that
\* exception and returned None, e is the handler's own ValueError
download_error(toolText) == ValueErrorText

\* lines 139-156: download_video returned; on failure the error reply, else
\* send_video
DownloadReturn(h) ==
    /\ running = h
    /\ pc[h] = "downloading"
    /\ \E o \in DownloadOutcomes, t \in ToolErrors :
        /\ disk' = IF o = "ok" THEN disk \cup {final_paths[message_text(h)]} ELSE disk
        /\ LET ret == download_video(message_text(h), o, disk')
               raisedText == IF o = "raise" THEN t ELSE ""
           IN  IF ret = None \/ ret \notin disk'
               THEN /\ pc' = [pc EXCEPT ![h] = "await_dlerror"]
                    /\ trace' = [trace EXCEPT ![h] = Append(@, "dl_error")]
                    /\ video_path' = video_path
                    /\ errs' = [errs EXCEPT ![h].dl_reply = download_error(raisedText)]
               ELSE /\ pc' = [pc EXCEPT ![h] = "await_send"]
                    /\ trace' = [trace EXCEPT ![h] = Append(@, "send_video")]
                    /\ video_path' = [video_path EXCEPT ![h] = ret]
                    /\ errs' = errs
    /\ running' = 0
    /\ UNCHANGED <<users, usersFile, upd, pending, probe, probeResult, loaded, saveFailed,
                   entities, has_spoiler, dl>>

\* lines 144-145: the download error reply returned
DlErrorReturn(h) ==
    /\ running = 0
    /\ pc[h] = "await_dlerror"
    /\ \E r \in Outcomes :
        pc' = [pc EXCEPT ![h] = IF r = "raise" THEN "raised" ELSE "done"]
    /\ UNCHANGED <<users, usersFile, disk, running, upd, trace, video_path,
                   pending, probe, probeResult, loaded, saveFailed,
                   errs, entities, has_spoiler, dl>>

\* an error reply that quotes the exception send_video raised
send_error_reply_raw(excText) == excText

\* lines 157-161: the text of the reply sent when send_video raised an
\* exception with the given text
send_error_reply(excText) == SendErrorReply

\* lines 152-164: send_video returned: on success the finally block, on an
\* exception the error reply
SendReturn(h) ==
    /\ running = 0
    /\ pc[h] = "await_send"
    /\ \E r \in Outcomes :
        IF r = "raise"
        THEN /\ pc' = [pc EXCEPT ![h] = "await_senderr"]
             /\ trace' = [trace EXCEPT ![h] = Append(@, "send_error")]
             /\ errs' = [errs EXCEPT ![h].send = send_error(video_path[h]),
                                     ![h].send_reply =
                                         send_error_reply(send_error(video_path[h]))]
        ELSE /\ pc' = [pc EXCEPT ![h] = "await_delete"]
             /\ trace' = [trace EXCEPT ![h] = Append(@, "delete")]
             /\ errs' = errs
    /\ UNCHANGED <<users, usersFile, disk, running, upd, video_path, pending,
                   probe, probeResult, loaded, saveFailed,
                   entities, has_spoiler, dl>>

\* lines 161-164: the send error reply returned; the finally block runs
\* either way, with the reply's exception propagating if it raised
SendErrReturn(h) ==
    /\ running = 0
    /\ pc[h] = "await_senderr"
    /\ \E r \in Outcomes :
        pending' = [pending EXCEPT ![h] = (r = "raise")]
    /\ pc' = [pc EXCEPT ![h] = "await_delete"]
    /\ trace' = [trace EXCEPT ![h] = Append(@, "delete")]
    /\ UNCHANGED <<users, usersFile, disk, running, upd, video_path,
                   probe, probeResult, loaded, saveFailed,
                   errs, entities, has_spoiler, dl>>

\* lines 163-166: processing_msg.delete() returned; its exception is caught
DeleteReturn(h) ==
    /\ running = 0
    /\ pc[h] = "await_delete"
    /\ \E r \in Outcomes :
        pc' = [pc EXCEPT ![h] = IF pending[h] THEN "raised" ELSE "done"]
    /\ UNCHANGED <<users, usersFile, disk, running, upd, trace, video_path,
                   pending, probe, probeResult, loaded, saveFailed,
                   errs, entities, has_spoiler, dl>>

\* the steps of handler h the event loop runs when the awaited call returns
Resume(h) ==
    \/ WelcomeReturn(h)
    \/ InvalidReturn(h)
    \/ ProcessingReturn(h)
    \/ DlErrorReturn(h)
    \/ SendReturn(h)
    \/ SendErrReturn(h)
    \/ DeleteReturn(h)

Dispatch(h) ==
    \/ DispatchNoText(h)
    \/ DispatchNewUser(h)
    \/ DispatchKnownUser(h)

Next ==
    \E h \in Handlers :
        \/ Dispatch(h)
        \/ Resume(h)
        \/ DownloadReturn(h)

Spec == Init /\ [][Next]_vars

\* the event loop resumes a coroutine whose awaited call returned and starts
\* the handler of a received update; nothing makes download_video return
FairSpec ==
    /\ Spec
    /\ \A h \in Handlers : WF_vars(Dispatch(h) \/ Resume(h))

(* ------------------------------------------------------------------ *)
(* The link validator on its own                                       *)
(* ------------------------------------------------------------------ *)

C_https == <<"h","t","t","p","s",":","/","/">>
C_evil == <<"e","v","i","l">>

\* the pieces the probed texts are built from
Chunks ==
    <<C_https, S_www, D_instagram, D_youtu_be, <<"/">>, <<"x">>, C_evil, <<" ">>>>

RECURSIVE Flatten(_)
Flatten(cs) ==
    IF cs = <<>> THEN <<>> ELSE Chunks[Head(cs)] \o Flatten(Tail(cs))

LinkTexts ==
    {Flatten(cs) : cs \in UNION {[1..n -> 1..Len(Chunks)] : n \in 0..MaxChunks}}

InitLink ==
    /\ usersFile = Absent
    /\ users = load_users(usersFile)
    /\ loaded = users
    /\ saveFailed = FALSE
    /\ disk = {}
    /\ running = 0
    /\ pc = [h \in Handlers |-> "idle"]
    /\ upd = [h \in Handlers |-> NoUpdate]
    /\ trace = [h \in Handlers |-> <<>>]
    /\ video_path = [h \in Handlers |-> None]
    /\ pending = [h \in Handlers |-> FALSE]
    /\ probe \in LinkTexts
    /\ probeResult = "unset"
    /\ errs = [h \in Handlers |-> NoErrs]
    /\ entities = NoEntities
    /\ has_spoiler = "unset"
    /\ dl = NoDl

\* lines 115 and 129: is_valid_link applied to the stripped message text
CheckLink ==
    /\ probeResult = "unset"
    /\ probeResult' = IF is_valid_link(strip(probe)) THEN "True" ELSE "False"
    /\ UNCHANGED <<users, usersFile, disk, running, pc, upd, trace, video_path,
                   pending, probe, loaded, saveFailed,
                   errs, entities, has_spoiler, dl>>

NextLink == CheckLink

SpecLink == InitLink /\ [][NextLink]_vars

(* ------------------------------------------------------------------ *)
(* The spoiler flag on its own                                         *)
(* ------------------------------------------------------------------ *)

\* the longest entity list of a probed message
MaxEntities == 3

\* MessageEntityType values the probed messages carry
EntityTypes == {"spoiler", "bold", "url", "mention"}

\* update.message.entities: absent, or a list of entities, each modelled by
\* its type
EntityLists ==
    {NoEntities} \cup
    {[present |-> TRUE, list |-> l] :
        l \in UNION {[1..n -> EntityTypes] : n \in 0..MaxEntities}}

\* a spoiler test that looks at the first entity only
spoiler_in_message_first(e) ==
    e.present /\ e.list # <<>> /\ Head(e.list) = "spoiler"

\* line 101: any(entity.type == MessageEntityType.SPOILER for entity in ..)
RECURSIVE any_spoiler(_)
any_spoiler(list) ==
    IF list = <<>> THEN FALSE
    ELSE IF Head(list) = "spoiler" THEN TRUE
    ELSE any_spoiler(Tail(list))

\* lines 100-101: spoiler_in_message(entities); None and the empty list are
\* both falsy
spoiler_in_message(e) ==
    IF e.present /\ e.list # <<>> THEN any_spoiler(e.list) ELSE FALSE

InitSpoiler ==
    /\ usersFile = Absent
    /\ users = load_users(usersFile)
    /\ loaded = users
    /\ saveFailed = FALSE
    /\ disk = {}
    /\ running = 0
    /\ pc = [h \in Handlers |-> "idle"]
    /\ upd = [h \in Handlers |-> NoUpdate]
    /\ trace = [h \in Handlers |-> <<>>]
    /\ video_path = [h \in Handlers |-> None]
    /\ pending = [h \in Handlers |-> FALSE]
    /\ probe = <<>>
    /\ probeResult = "unset"
    /\ errs = [h \in Handlers |-> NoErrs]
    /\ entities \in EntityLists
    /\ has_spoiler = "unset"
    /\ dl = NoDl

\* lines 147-156: visibility_flag is computed from the message's entities and
\* passed to send_video as has_spoiler
SendVideoCall ==
    /\ has_spoiler = "unset"
    /\ has_spoiler' = IF spoiler_in_message(entities) THEN "True" ELSE "False"
    /\ UNCHANGED <<users, usersFile, disk, running, pc, upd, trace, video_path,
                   pending, probe, probeResult, loaded, saveFailed, errs, entities,
                   dl>>

NextSpoiler == SendVideoCall

SpecSpoiler == InitSpoiler /\ [][NextSpoiler]_vars

(* ------------------------------------------------------------------ *)
(* download_video and its error reply on their own                     *)
(* ------------------------------------------------------------------ *)

\* the urls download_video is called with: the message texts that pass the
\* link check
DownloadUrls == {t \in MessageTexts : link_valid[t]}

\* a url, what the extraction tool does with it, and what its exception says
\* if it raises one
DlInputs ==
    {[url |-> u, tool |-> o, text |-> IF o = "raise" THEN t ELSE "",
      called |-> FALSE, ret |-> None, reply |-> ""] :
        u \in DownloadUrls, o \in DownloadOutcomes, t \in ToolErrors}

InitDownload ==
    /\ usersFile = Absent
    /\ users = load_users(usersFile)
    /\ loaded = users
    /\ saveFailed = FALSE
    /\ disk \in SUBSET {final_paths[u] : u \in DownloadUrls}
    /\ running = 0
    /\ pc = [h \in Handlers |-> "idle"]
    /\ upd = [h \in Handlers |-> NoUpdate]
    /\ trace = [h \in Handlers |-> <<>>]
    /\ video_path = [h \in Handlers |-> None]
    /\ pending = [h \in Handlers |-> FALSE]
    /\ probe = <<>>
    /\ probeResult = "unset"
    /\ errs = [h \in Handlers |-> NoErrs]
    /\ entities = NoEntities
    /\ has_spoiler = "unset"
    /\ dl \in DlInputs

\* line 139: video_path = download_video(message_text)
DownloadCall ==
    /\ ~dl.called
    /\ disk' = IF dl.tool = "ok" THEN disk \cup {final_paths[dl.url]} ELSE disk
    /\ dl' = [dl EXCEPT !.called = TRUE,
                        !.ret = download_video(dl.url, dl.tool, disk')]
    /\ UNCHANGED <<users, usersFile, running, pc, upd, trace, video_path, pending,
                   probe, probeResult, loaded, saveFailed, errs, entities,
                   has_spoiler>>

\* lines 140-145: no path or no file at it: the ValueError is raised and
\* caught, and the error reply is sent with str(e) in it
DownloadErrorReply ==
    /\ dl.called
    /\ dl.reply = ""
    /\ dl.ret = None \/ dl.ret \notin disk
    /\ dl' = [dl EXCEPT !.reply = download_error(dl.text)]
    /\ UNCHANGED <<users, usersFile, disk, running, pc, upd, trace, video_path,
                   pending, probe, probeResult, loaded, saveFailed, errs,
                   entities, has_spoiler>>

NextDownload == DownloadCall \/ DownloadErrorReply

SpecDownload == InitDownload /\ [][NextDownload]_vars

(* ------------------------------------------------------------------ *)
(* Properties                                                          *)
(* ------------------------------------------------------------------ *)

Dispatched(h) == pc[h] # "idle"

HasText(h) == Dispatched(h) /\ upd[h].text # NoText

\* the calls of kind e made by the first n handlers for user u's messages
RECURSIVE CallsUpTo(_, _, _)
CallsUpTo(n, u, e) ==
    IF n = 0
    THEN 0
    ELSE (IF upd[n].user = u THEN Count(trace[n], e) ELSE 0) + CallsUpTo(n - 1, u, e)

\* the calls of kind e made by the handlers of user u's messages
Calls(u, e) == CallsUpTo(MaxUpdates, u, e)

\* handler h left handle_message because save_users raised
SaveRaised(h) ==
    /\ pc[h] = "raised"
    /\ trace[h] # <<>>
    /\ trace[h][Len(trace[h])] = "save"

\* handler h went through the first-contact block and past it
PassedFirstContact(h) == Has(trace[h], "save") /\ ~SaveRaised(h)

\* C1: when a handler whose download produced an artifact file has returned
\* (after send_video succeeded or raised), that file is no longer on disk.
C1_ArtifactRemoved ==
    \A h \in Handlers :
        (pc[h] \in Finished /\ video_path[h] # None) => video_path[h] \notin disk

\* C2: over all handlers of one user's messages, in any interleaving, the
\* user id is inserted into the map at most once, save_users is called once
\* per insertion, the welcome reply is sent at most once; and once a message
\* with text from the user has been taken up the id is in the map, inserted
\* exactly once by this process unless load_users had already read it.
C2_FirstContactOnce ==
    \A u \in Users :
        LET inserts == Calls(u, "insert")
        IN  /\ inserts <= 1
            /\ Calls(u, "save") = inserts
            /\ Calls(u, "welcome") <= inserts
            /\ u \in loaded => inserts = 0
            /\ (\E h \in Handlers : HasText(h) /\ upd[h].user = u) =>
                  /\ u \in users
                  /\ u \notin loaded => inserts = 1

\* C2 witness: two handlers of the same new user's messages are in flight at
\* once, the first still awaiting its welcome reply
C2_Witness ==
    \E h, g \in Handlers :
        /\ h # g
        /\ upd[h].user = upd[g].user
        /\ upd[h].user \notin loaded
        /\ pc[h] = "await_welcome"
        /\ pc[g] \in Awaiting
        /\ Calls(upd[h].user, "save") = 1

LostUpdate ==
    \E h, g \in Handlers :
        /\ upd[h].user # upd[g].user
        /\ PassedFirstContact(h)
        /\ PassedFirstContact(g)
        /\ ~({upd[h].user, upd[g].user} \subseteq load_users(usersFile))

\* the handlers of two distinct new users are suspended at their welcome
\* replies at the same time: two concurrent first-contact events
ConcurrentFirstContacts ==
    \E h, g \in Handlers :
        /\ upd[h].user # upd[g].user
        /\ pc[h] = "await_welcome"
        /\ pc[g] = "await_welcome"

C4_StatusDeleted ==
    \A h \in Handlers :
        (pc[h] \in Finished /\ Has(trace[h], "download")) => Has(trace[h], "delete")

\* handler g has work the event loop could do: a suspended coroutine whose
\* call may return, or the next update to be handed to handle_message
HasWork(g) ==
    \/ pc[g] \in Awaiting
    \/ pc[g] = "idle" /\ (g > 1 => pc[g - 1] # "idle")

\* C5: while one handler is inside download_video, every other handler with
\* work to do can take its next step.
C5_OthersProgress ==
    \A h, g \in Handlers :
        (h # g /\ pc[h] = "downloading" /\ HasWork(g)) =>
            ENABLED (Dispatch(g) \/ Resume(g))

\* C6: no two handlers use the same artifact file path.
C6_UniquePaths ==
    \A h, g \in Handlers :
        (h # g /\ video_path[h] # None /\ video_path[g] # None) =>
            video_path[h] # video_path[g]

\* C7: no handler ends by raising.
C7_NeverRaises ==
    \A h \in Handlers : pc[h] # "raised"

\* C8: a handler of a message whose text fails is_valid_link sends no status
\* message, calls neither download_video nor send_video, and has sent exactly
\* one invalid-link warning when it is over.
C8_InvalidOneWarning ==
    \A h \in Handlers :
        (HasText(h) /\ ~is_valid_link(message_text(h))) =>
            /\ ~Has(trace[h], "processing")
            /\ ~Has(trace[h], "download")
            /\ ~Has(trace[h], "send_video")
            /\ Count(trace[h], "invalid") <= 1
            /\ pc[h] \in Finished => Count(trace[h], "invalid") = 1

\* the part of C8 that holds whatever fails: a handler of a message whose
\* text fails is_valid_link sends no status message, calls neither
\* download_video nor send_video, warns at most once, and has warned exactly
\* once when it returns
InvalidNeverProceeds ==
    \A h \in Handlers :
        (HasText(h) /\ ~is_valid_link(message_text(h))) =>
            /\ ~Has(trace[h], "processing")
            /\ ~Has(trace[h], "download")
            /\ ~Has(trace[h], "send_video")
            /\ Count(trace[h], "invalid") <= 1
            /\ (pc[h] = "done") => Count(trace[h], "invalid") = 1

\* the text is a link to a listed host and nothing else: an optional scheme,
\* an optional www., a listed domain, a slash and a non-empty path to the end
ExactLink(t) ==
    \E p \in AfterSlash(t, AfterDomain(t, AfterWww(t, AfterScheme(t, 1)))) :
        /\ p <= Len(t)
        /\ \A k \in p..Len(t) : t[k] \in PathChars

\* C9: is_valid_link is true exactly for the links whose host is a listed
\* domain, and false for every other text.
C9_ExactHost ==
    probeResult # "unset" => ((probeResult = "True") <=> ExactLink(strip(probe)))

\* C10: the handler of a message from a denied sender never reaches the
\* downloader or the uploader: it calls neither download_video nor
\* send_video.
C10_DeniedNeverDownloads ==
    \A h \in Handlers :
        upd[h].user \in DenyList =>
            /\ ~Has(trace[h], "download")
            /\ ~Has(trace[h], "send_video")

\* the position of the first call e in a trace, 0 if there is none
IndexOf(seq, e) ==
    IF Has(seq, e) THEN CHOOSE i \in 1..Len(seq) : seq[i] = e /\ \A j \in 1..(i - 1) : seq[j] # e
    ELSE 0

\* C11: a handler passes no artifact larger than the threshold to send_video
\* without having invoked the transcoder on it first, and it does not invoke
\* the transcoder on a file at or below the threshold.
C11_LargeTranscoded ==
    \A h \in Handlers :
        Has(trace[h], "send_video") =>
            IF file_size_mb(video_path[h]) > ThresholdMB
            THEN /\ Has(trace[h], "transcode")
                 /\ IndexOf(trace[h], "transcode") < IndexOf(trace[h], "send_video")
            ELSE ~Has(trace[h], "transcode")

\* the download error reply was sent after the extraction tool raised
ToolRaised == dl.tool = "raise" /\ dl.reply # ""

\* C12 as stated: when the extraction tool raised an exception, the download
\* error reply carries that exception's text. (The texts are taken whole: a
\* reply carries an exception's text when its str(e) part is that text.)
C12_RawToolText == ToolRaised => dl.reply = dl.text

\* C12, amended: whatever makes the download fail, the download error reply
\* carries the text of the ValueError handle_message raises itself, and never
\* the text of an exception the extraction tool raised.
C12_SubstituteText ==
    dl.reply # "" =>
        /\ dl.reply = ValueErrorText
        /\ dl.reply # dl.text
        /\ dl.reply \notin ToolErrors

\* the tool raised, download_video returned None, and the error reply was
\* sent
C12_Witness == ToolRaised /\ dl.ret = None /\ dl.text \in ToolErrors

\* C13: when send_video raised, the handler sends exactly one reply after
\* it, with the fixed text, whatever the exception says; when send_video
\* returned, it sends no error reply.
C13_FixedSendError ==
    \A h \in Handlers :
        LET t == trace[h]
            raised == errs[h].send # ""
        IN  /\ raised =>
                   /\ \E i \in 1..(Len(t) - 1) :
                          /\ t[i] = "send_video"
                          /\ t[i + 1] = "send_error"
                          /\ \A j \in (i + 2)..Len(t) : t[j] = "delete"
                   /\ Count(t, "send_error") = 1
                   /\ errs[h].send_reply = SendErrorReply
            /\ (Has(t, "send_video") /\ pc[h] # "await_send" /\ ~raised) =>
                   /\ t[Len(t)] = "delete"
                   /\ t[Len(t) - 1] = "send_video"
                   /\ ~Has(t, "send_error")
                   /\ errs[h].send_reply = ""
                   /\ errs[h].dl_reply = ""

\* send_video raised in two handlers with exceptions of different texts, and
\* succeeded in none of them
C13_Witness ==
    \E h, g \in Handlers :
        /\ errs[h].send # "" /\ errs[g].send # ""
        /\ errs[h].send # errs[g].send
        /\ pc[h] \in Finished /\ pc[g] \in Finished

\* C14: the has_spoiler flag passed to send_video is true exactly when the
\* message's entity list holds at least one spoiler entity; it is false when
\* the list is absent, empty, or holds only entities of other types.
C14_SpoilerIff ==
    has_spoiler # "unset" =>
        (has_spoiler = "True" <=>
            (entities.present /\
             \E i \in 1..Len(entities.list) : entities.list[i] = "spoiler"))

\* the flag was passed as true for a message whose spoiler entity is not
\* the first one
C14_Witness ==
    /\ has_spoiler = "True"
    /\ Len(entities.list) >= 2
    /\ entities.list[1] # "spoiler"

\* the message texts that pass the link check once stripped
ValidTexts == {t \in Texts : is_valid_link(strip(t))}

\* download_video's final_path for each message text
PathOf == [t \in Texts |-> final_path(strip(t))]

\* the calls of the pipeline, from the link check's outcome on
PipelineCalls == {"invalid", "processing", "download", "dl_error", "send_video"}

\* the runs of pipeline calls a handler may have made so far: the warning
\* alone, or the processing message, the download, and then either the error
\* reply or send_video, each once
PipelineRuns ==
    {<<>>, <<"invalid">>, <<"processing">>, <<"processing", "download">>,
     <<"processing", "download", "dl_error">>,
     <<"processing", "download", "send_video">>}

\* C15: a handler takes the pipeline steps in order and each at most once:
\* the link check passes before the processing message, that message comes
\* before download_video, and download_video before send_video; send_video
\* is called only with a path download_video returned and that exists on
\* disk; after a failed download the handler sends one error reply and never
\* calls send_video.
C15_PipelineOrder ==
    \A h \in Handlers :
        LET steps == SelectSeq(trace[h], LAMBDA e : e \in PipelineCalls)
        IN  /\ steps \in PipelineRuns
            /\ (steps # <<>> /\ steps[1] = "processing") => upd[h].text \in ValidTexts
            /\ (steps # <<>> /\ steps[1] = "invalid") => upd[h].text \notin ValidTexts
            /\ (Len(steps) = 3 /\ steps[3] = "send_video") =>
                   /\ video_path[h] = PathOf[upd[h].text]
                   /\ video_path[h] \in disk
            /\ (Len(steps) >= 2 /\ pc[h] # "downloading" /\ video_path[h] = None) =>
                   steps = <<"processing", "download", "dl_error">>

\* one handler went through the whole pipeline and another one's download
\* failed, both to the end
C15_Witness ==
    \E h, g \in Handlers :
        /\ pc[h] = "done" /\ Has(trace[h], "send_video")
        /\ pc[g] = "done" /\ Has(trace[g], "dl_error")

\* handler h got the first message with text of a user who was not in the
\* map when the module was loaded
FirstContact(h) ==
    /\ HasText(h)
    /\ upd[h].user \notin loaded
    /\ \A g \in 1..(h - 1) : ~(HasText(g) /\ upd[g].user = upd[h].user)

IsPrefix(s, t) == Len(s) <= Len(t) /\ s = SubSeq(t, 1, Len(s))

StaysSeenUnwelcomed(h) ==
    /\ upd[h].user \in users
    /\ Calls(upd[h].user, "welcome") = 0
    /\ Calls(upd[h].user, "insert") = 1
    /\ Calls(upd[h].user, "save") = 1

\* C17 as stated: when save_users raised in the first-contact block, the
\* user stays in the map, is absent from the users file, gets no welcome,
\* and no later message of that user saves or welcomes again.
C17_AbsentFromFile ==
    \A h \in Handlers :
        SaveRaised(h) =>
            /\ StaysSeenUnwelcomed(h)
            /\ upd[h].user \notin load_users(usersFile)

\* C17, amended: as stated, but the user is absent from the users file only
\* until the first contact of another user saves the whole map: the id is in
\* the file only if a later handler, of another user's message, called
\* save_users and it returned.
C17_AbsentUntilOtherSave ==
    \A h \in Handlers :
        SaveRaised(h) =>
            /\ StaysSeenUnwelcomed(h)
            /\ upd[h].user \in load_users(usersFile) =>
                   \E g \in (h + 1)..MaxUpdates :
                       /\ upd[g].user # upd[h].user
                       /\ Has(trace[g], "save")
                       /\ ~SaveRaised(g)

\* save_users raised for a user, and the handler of a later message of that
\* user has returned
C17_Witness ==
    \E h \in Handlers, g \in Handlers :
        /\ SaveRaised(h)
        /\ g > h
        /\ HasText(g)
        /\ upd[g].user = upd[h].user
        /\ pc[g] = "done"

\* handler h is started in this step, on an update without text
StartsWithoutText(h) ==
    /\ pc[h] = "idle"
    /\ pc'[h] # "idle"
    /\ upd'[h].text = NoText

\* C18: an update without a message or without text is ignored with no
\* effect: its handler returns at once, having made no call (no reply, no
\* download_video, no send_video), and the step leaves the users map, the
\* users file and the downloads directory as they were.
C18_NoTextNoEffect ==
    /\ [](\A h \in Handlers :
            (Dispatched(h) /\ upd[h].text = NoText) =>
                /\ pc[h] = "done"
                /\ trace[h] = <<>>
                /\ video_path[h] = None
                /\ errs[h] = NoErrs)
    /\ [][\A h \in Handlers :
            StartsWithoutText(h) =>
                UNCHANGED <<users, usersFile, disk, running, trace, video_path,
                            pending, errs, saveFailed>>]_vars

\* the handler of an update without text has returned, from a new user who
\* is in neither the map nor the file, while another handler is under way
C18_Witness ==
    \E h, g \in Handlers :
        /\ Dispatched(h)
        /\ upd[h].text = NoText
        /\ upd[h].user \notin users
        /\ pc[g] \in Awaiting

====
